---- MODULE Spec2Model ----
(***************************************************************************)
(* A model of the Shopify GraphQL proxy: the shared core                   *)
(* (shopify-graphql-core.ts), the HTTP adapter (graphql-server.ts) and the *)
(* CLI adapter (minimal-shopify-query.ts).                                 *)
(*                                                                         *)
(* Strings that the code trims, splits, slices or compares are sequences   *)
(* of one-character strings, so that trim(), split(), startsWith() and     *)
(* slice() are computed and not assumed.  Fixed message templates are TLA+ *)
(* strings (in English: the module text is ASCII; the Chinese original is  *)
(* quoted in the comment next to each).                                    *)
(*                                                                         *)
(* An async function is cut at its awaits: one action runs it from one     *)
(* await to the next.  The platform is the environment: its answer to each *)
(* fetch is drawn from a set of replies.  Left out, as nothing here reads  *)
(* them: the GraphQL variables and operationName, the console.error lines  *)
(* of the server, the port, and the text of a JSON value beyond what       *)
(* JSON.stringify(data.errors) needs.                                      *)
(***************************************************************************)
EXTENDS Integers, Sequences, FiniteSets, TLC

VARIABLES
    env,        \* process.env of the running process (read once)
    listening,  \* HTTP adapter: the server process is alive
    req,        \* HTTP adapter: per request, the request the client sent
    hpc,        \* HTTP adapter: per request, where its handler is
    written,    \* HTTP adapter: per request, the responses written to res
    orch,       \* HTTP adapter: per request, its validateAndQuery call
    cli,        \* CLI adapter: argv, position, stdout, stderr, exit status
    cliOrch,    \* CLI adapter: its validateAndQuery call
    probe       \* pure-function harness: inputs and result of one call

vars == <<env, listening, req, hpc, written, orch, cli, cliOrch, probe>>

----------------------------------------------------------------------------
(* Bounds of the model *)

\* number of HTTP requests that may be in flight together
NumRequests == 2
\* longest granted-scope list drawn for the getMissingScopes harness
MaxHandles == 2
\* longest required-scope list drawn for the getMissingScopes harness
MaxRequired == 2

----------------------------------------------------------------------------
(* Optional values: undefined is <<>>, a present value v is <<v>> *)

None == <<>>
Some(v) == <<v>>
IsNone(o) == Len(o) = 0
IsSome(o) == Len(o) = 1

----------------------------------------------------------------------------
(* String primitives of the JavaScript runtime *)

WhiteSpace == {" ", "\t", "\n", "\r"}

RECURSIVE TrimStart(_)
TrimStart(s) ==
    IF Len(s) > 0 /\ Head(s) \in WhiteSpace THEN TrimStart(Tail(s)) ELSE s

RECURSIVE TrimEnd(_)
TrimEnd(s) ==
    IF Len(s) > 0 /\ s[Len(s)] \in WhiteSpace
    THEN TrimEnd(SubSeq(s, 1, Len(s) - 1))
    ELSE s

\* String.prototype.trim
trim(s) == TrimEnd(TrimStart(s))

\* String.prototype.split with a one-character separator: "" splits to [""]
RECURSIVE split(_, _)
split(s, sep) ==
    IF \E i \in 1..Len(s) : s[i] = sep
    THEN LET i == CHOOSE k \in 1..Len(s) :
                     s[k] = sep /\ \A j \in 1..(k - 1) : s[j] # sep
         IN  <<SubSeq(s, 1, i - 1)>> \o split(SubSeq(s, i + 1, Len(s)), sep)
    ELSE <<s>>

\* String.prototype.startsWith
startsWith(s, p) == Len(s) >= Len(p) /\ SubSeq(s, 1, Len(p)) = p

\* String.prototype.slice(n), n >= 0
slice(s, n) == IF n >= Len(s) THEN <<>> ELSE SubSeq(s, n + 1, Len(s))

\* Array.prototype.join
RECURSIVE join(_, _)
join(list, sep) ==
    IF Len(list) = 0 THEN <<>>
    ELSE IF Len(list) = 1 THEN list[1]
    ELSE list[1] \o sep \o join(Tail(list), sep)

\* Array.prototype.map(s => s.trim())
mapTrim(list) == [i \in 1..Len(list) |-> trim(list[i])]

\* Array.prototype.filter(Boolean) on strings: drops the empty ones
filterBoolean(list) == SelectSeq(list, LAMBDA s : Len(s) > 0)

Digit(d) == CASE d = 0 -> "0" [] d = 1 -> "1" [] d = 2 -> "2" [] d = 3 -> "3"
              [] d = 4 -> "4" [] d = 5 -> "5" [] d = 6 -> "6" [] d = 7 -> "7"
              [] d = 8 -> "8" [] d = 9 -> "9"

\* a number interpolated into a template literal
RECURSIVE ToDigits(_)
ToDigits(n) == IF n < 10 THEN <<Digit(n)>>
               ELSE ToDigits(n \div 10) \o <<Digit(n % 10)>>

----------------------------------------------------------------------------
(* JavaScript values as they come out of JSON.parse.  One record shape:    *)
(* t is the type, s a string payload, items the messages of a list of      *)
(* error objects.                                                          *)

Undefined == [t |-> "undefined", s |-> <<>>, items |-> <<>>]
Null == [t |-> "null", s |-> <<>>, items |-> <<>>]
JFalse == [t |-> "boolean", s |-> <<"f", "a", "l", "s", "e">>, items |-> <<>>]
JTrue == [t |-> "boolean", s |-> <<"t", "r", "u", "e">>, items |-> <<>>]
\* a number, by its digits
JNum(digits) == [t |-> "number", s |-> digits, items |-> <<>>]
JStr(s) == [t |-> "string", s |-> s, items |-> <<>>]
\* an object, by a tag that stands for its content
JObj(tag) == [t |-> "object", s |-> tag, items |-> <<>>]
\* an array of {message} objects, by their messages
JList(msgs) == [t |-> "array", s |-> <<>>, items |-> msgs]

\* ToBoolean: undefined, null, false, 0 and "" are falsy; every object and
\* every array (the empty one too) is truthy
Truthy(v) ==
    CASE v.t = "undefined" -> FALSE
      [] v.t = "null" -> FALSE
      [] v.t = "boolean" -> v = JTrue
      [] v.t = "number" -> v.s # <<"0">>
      [] v.t = "string" -> Len(v.s) > 0
      [] v.t = "object" -> TRUE
      [] v.t = "array" -> TRUE

\* the operand of ?? is replaced when it is null or undefined
Nullish(v) == v.t \in {"undefined", "null"}

Quote(s) == <<"\"">> \o s \o <<"\"">>

MessageKey == <<"m", "e", "s", "s", "a", "g", "e">>

\* JSON.stringify of a value of the shapes above
Stringify(v) ==
    CASE v.t = "undefined" -> <<>>
      [] v.t = "null" -> <<"n", "u", "l", "l">>
      [] v.t = "boolean" -> v.s
      [] v.t = "number" -> v.s
      [] v.t = "string" -> Quote(v.s)
      [] v.t = "object" -> <<"{">> \o v.s \o <<"}">>
      [] v.t = "array" ->
            <<"[">>
            \o join([i \in 1..Len(v.items) |->
                        <<"{">> \o Quote(MessageKey) \o <<":">>
                        \o Quote(v.items[i]) \o <<"}">>], <<",">>)
            \o <<"]">>

----------------------------------------------------------------------------
(* Thrown errors: the message template and what is interpolated into it *)

Err(text, args) == [text |-> text, args |-> args]
NoErr == Err("", <<>>)

\* what a call ends with: a returned value, or a thrown error (value is then
\* a filler of the same shape, never read)
Returned(v) == [ok |-> TRUE, value |-> v, err |-> NoErr]
Thrown(e, filler) == [ok |-> FALSE, value |-> filler, err |-> e]

----------------------------------------------------------------------------
(* shopify-graphql-core.ts *)

READ_ORDERS == <<"r", "e", "a", "d", "_", "o", "r", "d", "e", "r", "s">>
READ_PRODUCTS ==
    <<"r", "e", "a", "d", "_", "p", "r", "o", "d", "u", "c", "t", "s">>
READ_CUSTOMERS ==
    <<"r", "e", "a", "d", "_", "c", "u", "s", "t", "o", "m", "e", "r", "s">>
READ_INVENTORY ==
    <<"r", "e", "a", "d", "_", "i", "n", "v", "e", "n", "t", "o", "r", "y">>

DEFAULT_SCOPES ==
    READ_ORDERS \o <<",">> \o READ_PRODUCTS \o <<",">>
    \o READ_CUSTOMERS \o <<",">> \o READ_INVENTORY

DEFAULT_API_VERSION == <<"2", "0", "2", "4", "-", "1", "0">>

\* scopesEnv ?? DEFAULT_SCOPES, then split(","), trim each, drop the empty
getRequiredScopes(scopesEnv) ==
    LET scopes == IF IsNone(scopesEnv) THEN DEFAULT_SCOPES ELSE scopesEnv[1]
    IN  filterBoolean(mapTrim(split(scopes, ",")))

\* requireEnv without the trim(): a blank value passes
requireEnv_NoTrim(e, name) ==
    IF IsNone(e[name]) \/ Len(e[name][1]) = 0
    THEN Thrown(Err("missing environment variable " \o name, <<>>), <<>>)
    ELSE Returned(e[name][1])

\* process.env[name]?.trim(), an error when that is undefined or ""
\* (message: "缺少环境变量 ${name}")
requireEnv(e, name) ==
    LET value == IF IsNone(e[name]) THEN None ELSE Some(trim(e[name][1]))
    IN  IF IsNone(value) \/ Len(value[1]) = 0
        THEN Thrown(Err("missing environment variable " \o name, <<>>), <<>>)
        ELSE Returned(value[1])

(* What the platform answers to one fetch.  net = FALSE: fetch itself       *)
(* rejected.  Otherwise status/statusText/text are the response line and   *)
(* the body as text, json says what res.json() makes of the body, and for  *)
(* an object body scopes is its access_scopes (the handles, when present)  *)
(* and data, errors its fields of those names.                             *)
Reply(net, status, statusText, text, json, scopes, data, errors) ==
    [net |-> net, status |-> status, statusText |-> statusText,
     text |-> text, json |-> json, scopes |-> scopes,
     data |-> data, errors |-> errors]

\* Response.ok
ResOk(reply) == reply.status \in 200..299

\* grantedSet without the trim() of the handles
grantedSet_NoTrim(handles) ==
    LET kept == filterBoolean(handles)
    IN  {kept[i] : i \in 1..Len(kept)}

\* new Set(data.access_scopes.map(s => s.handle.trim()).filter(Boolean))
grantedSet(handles) ==
    LET kept == filterBoolean(mapTrim(handles))
    IN  {kept[i] : i \in 1..Len(kept)}

\* requiredScopes.filter(scope => !granted.has(scope))
filterMissing(requiredScopes, granted) ==
    SelectSeq(requiredScopes, LAMBDA scope : scope \notin granted)

\* getMissingScopes, from the reply to its fetch on
\* (message: "获取 Shopify 授权 scope 失败 (${status} ${statusText}): ${text}")
getMissingScopes(requiredScopes, reply) ==
    IF ~reply.net
    THEN Thrown(Err("fetch failed", <<>>), <<>>)
    ELSE IF ~ResOk(reply)
    THEN Thrown(Err("fetching the granted scopes failed ({0} {1}): {2}",
                    <<ToDigits(reply.status), reply.statusText, reply.text>>),
                <<>>)
    ELSE IF reply.json = "invalid"
    THEN Thrown(Err("SyntaxError: not valid JSON", <<>>), <<>>)
    ELSE IF reply.json = "null" \/ IsNone(reply.scopes)
    THEN Thrown(Err("TypeError: cannot read properties", <<>>), <<>>)
    ELSE Returned(filterMissing(requiredScopes, grantedSet(reply.scopes[1])))

\* the value runShopifyQuery returns: the data field, or the whole parsed
\* response (its data and errors fields)
DataResult(d) == [whole |-> FALSE, data |-> d, errors |-> Undefined]
WholeResult(reply) ==
    [whole |-> TRUE, data |-> reply.data, errors |-> reply.errors]
NoResult == [whole |-> FALSE, data |-> Undefined, errors |-> Undefined]

\* if (data.errors && !data.data): partial data is let through
hasErrors_UnlessData(reply) == Truthy(reply.errors) /\ Nullish(reply.data)

\* if (data.errors)
hasErrors(reply) == Truthy(reply.errors)

\* data.data ?? data
dataOrWhole(reply) ==
    IF Nullish(reply.data) THEN WholeResult(reply) ELSE DataResult(reply.data)

\* runShopifyQuery, from the reply to its fetch on
runShopifyQuery(reply) ==
    IF ~reply.net
    THEN Thrown(Err("fetch failed", <<>>), NoResult)
    ELSE IF ~ResOk(reply)
    THEN Thrown(Err("Shopify API error ({0} {1}): {2}",
                    <<ToDigits(reply.status), reply.statusText, reply.text>>),
                NoResult)
    ELSE IF reply.json = "invalid"
    THEN Thrown(Err("SyntaxError: not valid JSON", <<>>), NoResult)
    ELSE IF reply.json = "null"
    THEN Thrown(Err("TypeError: cannot read properties", <<>>), NoResult)
    ELSE IF hasErrors(reply)
    THEN Thrown(Err("Shopify GraphQL errors: {0}",
                    <<Stringify(reply.errors)>>), NoResult)
    ELSE Returned(dataOrWhole(reply))

(* validateAndQuery, a call in progress.  pc: "idle" not called, "scope"   *)
(* awaiting getMissingScopes, "query" awaiting runShopifyQuery, "done"     *)
(* settled with outcome.  trace lists, in order, what the call has done to *)
(* the platform: "scope-sent", then "scope-threw" or "scope-returned",     *)
(* then "query-sent", then "query-threw" or "query-returned".              *)
NoReply == Reply(FALSE, 0, <<>>, <<>>, "invalid", None, Undefined, Undefined)

IdleOrch ==
    [pc |-> "idle", required |-> <<>>, query |-> <<>>, apiVersion |-> <<>>,
     scopeReply |-> NoReply, queryReply |-> NoReply, missing |-> <<>>,
     trace |-> <<>>, outcome |-> Thrown(NoErr, NoResult)]

\* the ShopifyConfig both adapters build from the environment
ShopifyConfig(shopDomain, accessToken, e) ==
    [shopDomain |-> shopDomain, accessToken |-> accessToken,
     apiVersion |-> e["SHOPIFY_API_VERSION"], scopes |-> e["SHOPIFY_SCOPES"]]

\* apiVersion || "2024-10"
apiVersionOrDefault(apiVersion) ==
    IF IsNone(apiVersion) \/ Len(apiVersion[1]) = 0
    THEN DEFAULT_API_VERSION
    ELSE apiVersion[1]

\* validateAndQuery up to its first await: the scope call is sent
validateAndQueryCall(config, query) ==
    [IdleOrch EXCEPT !.pc = "scope",
                     !.required = getRequiredScopes(config.scopes),
                     !.query = query,
                     !.apiVersion = apiVersionOrDefault(config.apiVersion),
                     !.trace = <<"scope-sent">>]

\* the check of the missing scopes left out
anyMissing_Never(missingScopes) == FALSE

\* if (missingScopes.length > 0)
anyMissing(missingScopes) == Len(missingScopes) > 0

\* "Shopify 应用缺少以下授权：${missingScopes.join(", ")}。
\*  请重新安装应用以授予这些 scope。"
MissingScopesText ==
    "the Shopify app lacks these scopes: {0}. Reinstall the app to grant them."

\* validateAndQuery resumed by the answer to the scope call
validateAndQueryOnScopes(o, reply) ==
    LET m == getMissingScopes(o.required, reply)
    IN  IF ~m.ok
        THEN [o EXCEPT !.pc = "done", !.scopeReply = reply,
                       !.trace = Append(@, "scope-threw"),
                       !.outcome = Thrown(m.err, NoResult)]
        ELSE IF anyMissing(m.value)
        THEN [o EXCEPT !.pc = "done", !.scopeReply = reply,
                       !.missing = m.value,
                       !.trace = Append(@, "scope-returned"),
                       !.outcome =
                           Thrown(Err(MissingScopesText,
                                      <<join(m.value, <<",", " ">>)>>),
                                  NoResult)]
        ELSE [o EXCEPT !.pc = "query", !.scopeReply = reply,
                       !.missing = m.value,
                       !.trace = @ \o <<"scope-returned", "query-sent">>]

\* validateAndQuery resumed by the answer to the GraphQL POST
validateAndQueryOnQuery(o, reply) ==
    LET res == runShopifyQuery(reply)
    IN  [o EXCEPT !.pc = "done", !.queryReply = reply,
                  !.trace = Append(@, IF res.ok THEN "query-returned"
                                               ELSE "query-threw"),
                  !.outcome = res]

----------------------------------------------------------------------------
(* graphql-server.ts *)

\* process.env.API_KEY?.trim()
API_KEY(e) == IF IsNone(e["API_KEY"]) THEN None ELSE Some(trim(e["API_KEY"][1]))

Bearer == <<"B", "e", "a", "r", "e", "r", " ">>

\* validateApiKey letting a request without Authorization header through
validateApiKey_AbsentPasses(apiKey, authorization) ==
    IF IsNone(apiKey) \/ Len(apiKey[1]) = 0
    THEN TRUE
    ELSE IF IsNone(authorization) \/ Len(authorization[1]) = 0
    THEN TRUE
    ELSE LET authHeader == authorization[1]
             token == IF startsWith(authHeader, Bearer)
                      THEN slice(authHeader, 7)
                      ELSE authHeader
         IN  token = apiKey[1]

\* validateApiKey: apiKey is API_KEY, authorization is req.headers.authorization
validateApiKey(apiKey, authorization) ==
    IF IsNone(apiKey) \/ Len(apiKey[1]) = 0
    THEN TRUE
    ELSE IF IsNone(authorization) \/ Len(authorization[1]) = 0
    THEN FALSE
    ELSE LET authHeader == authorization[1]
             token == IF startsWith(authHeader, Bearer)
                      THEN slice(authHeader, 7)
                      ELSE authHeader
         IN  token = apiKey[1]

(* A response as written to res: the status, the names of the headers of   *)
(* writeHead, and the body given to end.                                   *)
CorsHeaders ==
    {"Access-Control-Allow-Origin", "Access-Control-Allow-Methods",
     "Access-Control-Allow-Headers"}

ResBody(kind, message, data) == [kind |-> kind, message |-> message, data |-> data]
EmptyBody == ResBody("empty", NoErr, NoResult)
\* { status: "ok", service: "shopify-graphql-proxy" }
HealthBody == ResBody("health", NoErr, NoResult)
\* { data: { __schema: ... } }
SchemaBody == ResBody("schema", NoErr, NoResult)
\* { errors: [{ message }] }
ErrorsBody(message) == ResBody("errors", message, NoResult)
\* { data }
DataBody(data) == ResBody("data", NoErr, data)

Response(status, headers, body) ==
    [status |-> status, headers |-> headers, body |-> body]

\* sendJson appends one response to what res has been given
sendJson(w, statusCode, body) ==
    Append(w, Response(statusCode, CorsHeaders \cup {"Content-Type"}, body))

sendError(w, statusCode, message) == sendJson(w, statusCode, ErrorsBody(message))

\* the OPTIONS branch: writeHead(204, CORS headers and Max-Age), end()
sendPreflight(w) ==
    Append(w, Response(204, CorsHeaders \cup {"Access-Control-Max-Age"},
                       EmptyBody))

handleHealthCheck(w) == sendJson(w, 200, HealthBody)

handleIntrospection(w) == sendJson(w, 200, SchemaBody)

\* the index of the first character of s that is in cs, Len(s) + 1 if none
FirstOf(s, cs) ==
    IF \E i \in 1..Len(s) : s[i] \in cs
    THEN CHOOSE i \in 1..Len(s) : s[i] \in cs /\ \A j \in 1..(i - 1) : s[j] \notin cs
    ELSE Len(s) + 1

RECURSIVE SkipSlashes(_)
SkipSlashes(s) ==
    IF Len(s) > 0 /\ Head(s) = "/" THEN SkipSlashes(Tail(s)) ELSE s

(* new URL(req.url || "/", "http://localhost:PORT").pathname, for a request *)
(* target without scheme, dot segments, backslashes or characters that get *)
(* percent-encoded.  The query and the fragment are cut off.  A target that*)
(* starts with "//" is a network-path reference: what follows the slashes  *)
(* up to the next "/" is the host, the rest is the path, and an empty host *)
(* makes the constructor throw TypeError (Invalid URL).  Any other target  *)
(* is resolved against the base path "/".                                  *)
parseUrl(url) ==
    LET u == IF Len(url) = 0 THEN <<"/">> ELSE url
        noQuery == SubSeq(u, 1, FirstOf(u, {"?", "#"}) - 1)
    IN  IF startsWith(noQuery, <<"/", "/">>)
        THEN LET rest == SkipSlashes(noQuery)
                 host == SubSeq(rest, 1, FirstOf(rest, {"/"}) - 1)
                 path == slice(rest, Len(host))
             IN  IF Len(host) = 0
                 THEN Thrown(Err("TypeError: Invalid URL", <<>>), <<>>)
                 ELSE Returned(IF Len(path) = 0 THEN <<"/">> ELSE path)
        ELSE IF startsWith(noQuery, <<"/">>)
        THEN Returned(noQuery)
        ELSE Returned(<<"/">> \o noQuery)

PathRoot == <<"/">>
PathHealth == <<"/", "h", "e", "a", "l", "t", "h">>
PathGraphql == <<"/", "g", "r", "a", "p", "h", "q", "l">>

(* A step of a request's handler: where the handler is afterwards, what it *)
(* has written to res, and its validateAndQuery call.                      *)
Step(pc, w, o) == [pc |-> pc, written |-> w, orch |-> o]

\* handleGraphQLRequest up to its first await
handleGraphQLRequestEnter(q, apiKey) ==
    IF ~validateApiKey(apiKey, q.authorization)
    THEN Step("done",
              sendError(<<>>, 401,
                        Err("Unauthorized: Invalid or missing API key", <<>>)),
              IdleOrch)
    ELSE Step("body", <<>>, IdleOrch)

\* the createServer callback up to its first await; "rejected": the async
\* callback threw, its promise is rejected and nothing handles it
requestListener(q, apiKey) ==
    LET url == parseUrl(q.url)
    IN  IF ~url.ok
        THEN Step("rejected", <<>>, IdleOrch)
        ELSE IF q.method = "OPTIONS"
        THEN Step("done", sendPreflight(<<>>), IdleOrch)
        ELSE IF url.value = PathHealth \/ url.value = PathRoot
        THEN Step("done", handleHealthCheck(<<>>), IdleOrch)
        ELSE IF url.value = PathGraphql
        THEN IF q.method = "POST"
             THEN handleGraphQLRequestEnter(q, apiKey)
             ELSE IF q.method = "GET"
             THEN Step("done", handleIntrospection(<<>>), IdleOrch)
             ELSE Step("done",
                       sendError(<<>>, 405,
                                 Err("Method not allowed. Use POST for GraphQL queries.", <<>>)),
                       IdleOrch)
        ELSE Step("done",
                  sendError(<<>>, 404,
                            Err("Not found. Use /graphql endpoint for GraphQL queries.", <<>>)),
                  IdleOrch)

\* the catch block of handleGraphQLRequest
handleGraphQLRequestCatch(w, o, err) == Step("done", sendError(w, 500, err), o)

\* !query || typeof query !== "string"
invalidQuery(query) == ~Truthy(query) \/ query.t # "string"

(* handleGraphQLRequest resumed by the end of the request body.  The body  *)
(* is what JSON.parse makes of it: json = "invalid" it throws, "null" it   *)
(* returns null (destructuring null throws TypeError), "scalar" a value    *)
(* without a query property, "object" an object whose query is q.body.query*)
handleGraphQLRequestOnEnd(q, config) ==
    IF q.body.json = "invalid"
    THEN handleGraphQLRequestCatch(<<>>, IdleOrch, Err("Invalid JSON body", <<>>))
    ELSE IF q.body.json = "null"
    THEN handleGraphQLRequestCatch(<<>>, IdleOrch,
                                   Err("TypeError: cannot destructure", <<>>))
    ELSE LET query == IF q.body.json = "object" THEN q.body.query ELSE Undefined
         IN  IF invalidQuery(query)
             THEN Step("done",
                       sendError(<<>>, 400,
                                 Err("Missing or invalid 'query' field", <<>>)),
                       IdleOrch)
             ELSE Step("scope", <<>>, validateAndQueryCall(config, query.s))

\* handleGraphQLRequest resumed by validateAndQuery settling or going on
handleGraphQLRequestOnOrch(w, o) ==
    IF o.pc = "query"
    THEN Step("query", w, o)
    ELSE IF o.outcome.ok
    THEN Step("done", sendJson(w, 200, DataBody(o.outcome.value)), o)
    ELSE handleGraphQLRequestCatch(w, o, o.outcome.err)

----------------------------------------------------------------------------
(* The inputs the model draws *)

SeqsUpTo(S, n) == UNION {[1..k -> S] : k \in 0..n}

ShopDomain == <<"s", ".", "t">>
AccessToken == <<"t", "k">>
Secret == <<"k", "1">>
OtherSecret == <<"k", "2">>
ScopeA == <<"a">>
ScopeB == <<"b">>
QueryText == <<"{", "s", "}">>

Environment(domain, token, graphql, scopes, version, apiKey) ==
    [SHOP_DOMAIN |-> domain, SHOP_ACCESS_TOKEN |-> token,
     SHOPIFY_GRAPHQL |-> graphql, SHOPIFY_SCOPES |-> scopes,
     SHOPIFY_API_VERSION |-> version, API_KEY |-> apiKey]

\* SHOPIFY_SCOPES unset, or "a, ,b"
ScopesEnvs == {None, Some(<<"a", ",", " ", ",", "b">>)}

\* the environments the server is started in
ServerEnvs ==
    {Environment(d, Some(AccessToken), None, sc, None, k) :
        d \in {None, Some(ShopDomain)},
        sc \in ScopesEnvs,
        k \in {None, Some(<<" ">>), Some(<<" ">> \o Secret \o <<" ">>)}}

\* the body of a request, as JSON.parse sees it
ReqBody(json, query) == [json |-> json, query |-> query]
ValidBody == ReqBody("object", JStr(QueryText))
ReqBodies ==
    {ReqBody("invalid", Undefined), ReqBody("null", Undefined),
     ReqBody("scalar", Undefined), ReqBody("object", Undefined),
     ReqBody("object", JStr(<<>>)), ReqBody("object", JNum(<<"5">>)),
     ValidBody}

Request(method, url, authorization, body) ==
    [method |-> method, url |-> url, authorization |-> authorization,
     body |-> body]
NoRequest == Request("", <<>>, None, ReqBody("invalid", Undefined))

Methods == {"OPTIONS", "GET", "POST", "PUT"}
Urls == {PathRoot, PathHealth, PathGraphql, <<"/", "x">>, <<"/", "/">>}
Authorizations ==
    {None, Some(Secret), Some(Bearer \o Secret), Some(Bearer \o OtherSecret),
     Some(Bearer)}

\* the requests clients send
Requests ==
    {Request(m, u, None, ValidBody) : m \in Methods, u \in Urls}
    \cup {Request("GET", PathGraphql \o <<"?", "x">>, None, ValidBody)}
    \cup {Request("POST", PathGraphql, a, ReqBody("object", Undefined)) :
             a \in Authorizations}
    \cup {Request("POST", PathGraphql, Some(Bearer \o Secret), b) :
             b \in ReqBodies}
    \cup {Request("OPTIONS", u, Some(Bearer \o OtherSecret), ValidBody) :
             u \in {PathGraphql, <<"/", "x">>}}

OkText == <<"O", "K">>

\* a 200 answer of the scope endpoint listing these handles
ScopesReply(handles) ==
    Reply(TRUE, 200, OkText, <<>>, "object", Some(handles), Undefined, Undefined)

\* a non-success answer of the platform
FailReply(status) ==
    Reply(TRUE, status, <<"N", "o">>, <<"n", "o">>, "invalid", None,
          Undefined, Undefined)

\* a 200 answer of the GraphQL endpoint with these data and errors fields
GraphqlReply(data, errors) ==
    Reply(TRUE, 200, OkText, <<>>, "object", None, data, errors)

DefaultHandles == <<READ_ORDERS, READ_PRODUCTS, READ_CUSTOMERS, READ_INVENTORY>>

ShopData == JObj(<<"s", "h", "o", "p">>)
OneError == JList(<<<<"e", "1">>>>)
TwoErrors == JList(<<<<"e", "1">>, <<"e", "2">>>>)

\* what the platform answers the server's scope calls with
ServerScopeReplies ==
    {NoReply, FailReply(403), ScopesReply(<<ScopeA, ScopeB>>),
     ScopesReply(DefaultHandles)}

\* what the platform answers the server's GraphQL POSTs with
ServerQueryReplies ==
    {FailReply(500), GraphqlReply(ShopData, Undefined),
     GraphqlReply(ShopData, OneError)}

----------------------------------------------------------------------------
(* The HTTP adapter as a state machine *)

Reqs == 1..NumRequests

IdleCli ==
    [pc |-> "off", argv |-> None, stdout |-> <<>>, stderr |-> <<>>,
     exitCode |-> -1]
IdleProbe == [pc |-> "off", required |-> <<>>, handles |-> <<>>, result |-> <<>>]

Init ==
    /\ env \in ServerEnvs
    /\ listening = "starting"
    /\ req = [r \in Reqs |-> NoRequest]
    /\ hpc = [r \in Reqs |-> "new"]
    /\ written = [r \in Reqs |-> <<>>]
    /\ orch = [r \in Reqs |-> IdleOrch]
    /\ cli = IdleCli
    /\ cliOrch = IdleOrch
    /\ probe = IdleProbe

\* main() of graphql-server.ts up to server.listen: a missing SHOP_DOMAIN or
\* SHOP_ACCESS_TOKEN rejects main()'s promise and the process ends
ServerMain ==
    /\ listening = "starting"
    /\ listening' = IF requireEnv(env, "SHOP_DOMAIN").ok
                       /\ requireEnv(env, "SHOP_ACCESS_TOKEN").ok
                    THEN "listening"
                    ELSE "exited"
    /\ UNCHANGED <<env, req, hpc, written, orch, cli, cliOrch, probe>>

\* the config object main() builds once
ServerConfig ==
    ShopifyConfig(requireEnv(env, "SHOP_DOMAIN").value,
                  requireEnv(env, "SHOP_ACCESS_TOKEN").value, env)

\* the handler of request r moves to st
Apply(r, st) ==
    /\ hpc' = [hpc EXCEPT ![r] = st.pc]
    /\ written' = [written EXCEPT ![r] = st.written]
    /\ orch' = [orch EXCEPT ![r] = st.orch]

(* A request arrives and the createServer callback runs to its first await.*)
(* Requests are numbered in the order they arrive.  A rejected callback is *)
(* an unhandled rejection, which ends the process (Node.js 18+, README).   *)
Receive(r) ==
    /\ listening = "listening"
    /\ hpc[r] = "new"
    /\ \A j \in Reqs : j < r => hpc[j] # "new"
    /\ \E q \in Requests :
          LET st == requestListener(q, API_KEY(env))
          IN  /\ req' = [req EXCEPT ![r] = q]
              /\ Apply(r, st)
              /\ listening' = IF st.pc = "rejected" THEN "exited" ELSE listening
    /\ UNCHANGED <<env, cli, cliOrch, probe>>

\* req emits "end": the body has been read
BodyEnd(r) ==
    /\ listening = "listening"
    /\ hpc[r] = "body"
    /\ Apply(r, handleGraphQLRequestOnEnd(req[r], ServerConfig))
    /\ UNCHANGED <<env, listening, req, cli, cliOrch, probe>>

\* req emits "error" before its end: parseRequestBody rejects with it (the
\* body of req[r] is from then on "aborted": it was never read to its end)
BodyError(r) ==
    /\ listening = "listening"
    /\ hpc[r] = "body"
    /\ Apply(r, handleGraphQLRequestCatch(<<>>, IdleOrch, Err("aborted", <<>>)))
    /\ req' = [req EXCEPT ![r].body = ReqBody("aborted", Undefined)]
    /\ UNCHANGED <<env, listening, cli, cliOrch, probe>>

\* the platform answers the scope call of request r
ScopeReply(r) ==
    /\ listening = "listening"
    /\ hpc[r] = "scope"
    /\ \E reply \in ServerScopeReplies :
          Apply(r, handleGraphQLRequestOnOrch(
                       written[r], validateAndQueryOnScopes(orch[r], reply)))
    /\ UNCHANGED <<env, listening, req, cli, cliOrch, probe>>

\* the platform answers the GraphQL POST of request r
QueryReply(r) ==
    /\ listening = "listening"
    /\ hpc[r] = "query"
    /\ \E reply \in ServerQueryReplies :
          Apply(r, handleGraphQLRequestOnOrch(
                       written[r], validateAndQueryOnQuery(orch[r], reply)))
    /\ UNCHANGED <<env, listening, req, cli, cliOrch, probe>>

Next ==
    \/ ServerMain
    \/ \E r \in Reqs : Receive(r)
    \/ \E r \in Reqs : BodyEnd(r)
    \/ \E r \in Reqs : BodyError(r)
    \/ \E r \in Reqs : ScopeReply(r)
    \/ \E r \in Reqs : QueryReply(r)

Spec == Init /\ [][Next]_vars

----------------------------------------------------------------------------
(* minimal-shopify-query.ts as a state machine.  cli.pc: "start" main() not*)
(* yet run, "scope" and "query" awaiting the platform, "exited" the process*)
(* has ended with cli.exitCode.  stderr holds the console.error lines,     *)
(* stdout the values printed by console.log(JSON.stringify(data, null, 2)).*)

\* the environments and arguments the CLI is run with
CliEnvs ==
    {Environment(d, t, g, sc, None, None) :
        d \in {None, Some(<<" ">>), Some(ShopDomain)},
        t \in {None, Some(AccessToken)},
        g \in {None, Some(<<" ">>), Some(QueryText)},
        sc \in ScopesEnvs}
CliArgs == {None, Some(<<" ">>), Some(<<" ">> \o QueryText)}

\* what the platform answers the CLI's scope call with
CliScopeReplies ==
    {NoReply, FailReply(403),
     Reply(TRUE, 200, OkText, <<>>, "invalid", None, Undefined, Undefined),
     Reply(TRUE, 200, OkText, <<>>, "null", None, Undefined, Undefined),
     Reply(TRUE, 200, OkText, <<>>, "object", None, Undefined, Undefined),
     ScopesReply(<<>>), ScopesReply(<<ScopeB>>),
     ScopesReply(<<<<" ", "a", " ">>, <<>>, ScopeB>>),
     ScopesReply(DefaultHandles), ScopesReply(Tail(DefaultHandles))}

\* what the platform answers the CLI's GraphQL POST with
CliQueryReplies ==
    {NoReply, FailReply(500),
     Reply(TRUE, 200, OkText, <<>>, "invalid", None, Undefined, Undefined),
     Reply(TRUE, 200, OkText, <<>>, "null", None, Undefined, Undefined)}
    \cup {GraphqlReply(d, e) :
             d \in {Undefined, Null, ShopData},
             e \in {Undefined, Null, JFalse, JStr(<<"n", "o">>),
                    JList(<<>>), OneError, TwoErrors}}

InitCli ==
    /\ env \in CliEnvs
    /\ listening = "off"
    /\ req = [r \in Reqs |-> NoRequest]
    /\ hpc = [r \in Reqs |-> "new"]
    /\ written = [r \in Reqs |-> <<>>]
    /\ orch = [r \in Reqs |-> IdleOrch]
    /\ cli \in {[IdleCli EXCEPT !.pc = "start", !.argv = a] : a \in CliArgs}
    /\ cliOrch = IdleOrch
    /\ probe = IdleProbe

\* console.error("[info] 正在校验 Shopify 授权 scope...")
InfoChecking == Err("[info] checking the Shopify scopes...", <<>>)
\* console.error("[info] 授权通过，正在调用 Shopify...")
InfoCalling == Err("[info] authorized, calling Shopify...", <<>>)

\* the catch block of main(): console.error(`[error] ${message}`), exit(1)
cliCatch(c, err) ==
    [c EXCEPT !.pc = "exited",
              !.stderr = Append(@, Err("[error] " \o err.text, err.args)),
              !.exitCode = 1]

\* process.argv[2]?.trim()
cliQuery(argv) == IF IsNone(argv) THEN None ELSE Some(trim(argv[1]))

\* cliQuery || requireEnv("SHOPIFY_GRAPHQL")
queryOrEnv(argv, e) ==
    IF IsSome(cliQuery(argv)) /\ Len(cliQuery(argv)[1]) > 0
    THEN Returned(cliQuery(argv)[1])
    ELSE requireEnv(e, "SHOPIFY_GRAPHQL")

\* main() up to its await
CliMain ==
    /\ cli.pc = "start"
    /\ LET shopDomain == requireEnv(env, "SHOP_DOMAIN")
           accessToken == requireEnv(env, "SHOP_ACCESS_TOKEN")
           query == queryOrEnv(cli.argv, env)
       IN  IF ~shopDomain.ok
           THEN cli' = cliCatch(cli, shopDomain.err) /\ cliOrch' = cliOrch
           ELSE IF ~accessToken.ok
           THEN cli' = cliCatch(cli, accessToken.err) /\ cliOrch' = cliOrch
           ELSE IF ~query.ok
           THEN cli' = cliCatch(cli, query.err) /\ cliOrch' = cliOrch
           ELSE /\ cli' = [cli EXCEPT !.pc = "scope",
                                      !.stderr = @ \o <<InfoChecking, InfoCalling>>]
                /\ cliOrch' = validateAndQueryCall(
                                  ShopifyConfig(shopDomain.value,
                                                accessToken.value, env),
                                  query.value)
    /\ UNCHANGED <<env, listening, req, hpc, written, orch, probe>>

\* main() resumed by validateAndQuery: still awaiting, thrown (catch), or
\* returned: console.log of the result, and the process ends with status 0
cliResume(c, o) ==
    IF o.pc = "query"
    THEN [c EXCEPT !.pc = "query"]
    ELSE IF o.outcome.ok
    THEN [c EXCEPT !.pc = "exited", !.stdout = Append(@, o.outcome.value),
                   !.exitCode = 0]
    ELSE cliCatch(c, o.outcome.err)

\* the platform answers the CLI's scope call
CliScopeReply ==
    /\ cli.pc = "scope"
    /\ \E reply \in CliScopeReplies :
          /\ cliOrch' = validateAndQueryOnScopes(cliOrch, reply)
          /\ cli' = cliResume(cli, cliOrch')
    /\ UNCHANGED <<env, listening, req, hpc, written, orch, probe>>

\* the platform answers the CLI's GraphQL POST
CliQueryReply ==
    /\ cli.pc = "query"
    /\ \E reply \in CliQueryReplies :
          /\ cliOrch' = validateAndQueryOnQuery(cliOrch, reply)
          /\ cli' = cliResume(cli, cliOrch')
    /\ UNCHANGED <<env, listening, req, hpc, written, orch, probe>>

NextCli == CliMain \/ CliScopeReply \/ CliQueryReply

SpecCli == InitCli /\ [][NextCli]_vars

----------------------------------------------------------------------------
(* getMissingScopes on drawn lists: probe.pc is "input" before the call    *)
(* and "called" after it, with the returned list in probe.result.          *)

\* the scope names and the handles the lists are drawn from
ScopeNames == {ScopeA, ScopeB, <<" ", "a">>}
Handles == {ScopeA, ScopeB, <<" ", "a", " ">>, <<>>, <<" ">>}

InitScopes ==
    /\ env = Environment(None, None, None, None, None, None)
    /\ listening = "off"
    /\ req = [r \in Reqs |-> NoRequest]
    /\ hpc = [r \in Reqs |-> "new"]
    /\ written = [r \in Reqs |-> <<>>]
    /\ orch = [r \in Reqs |-> IdleOrch]
    /\ cli = IdleCli
    /\ cliOrch = IdleOrch
    /\ probe \in {[IdleProbe EXCEPT !.pc = "input", !.required = R, !.handles = G] :
                     R \in SeqsUpTo(ScopeNames, MaxRequired),
                     G \in SeqsUpTo(Handles, MaxHandles)}

\* getMissingScopes is called and the platform answers 200 with the handles
CallGetMissingScopes ==
    /\ probe.pc = "input"
    /\ LET res == getMissingScopes(probe.required, ScopesReply(probe.handles))
       IN  probe' = [probe EXCEPT !.pc = "called", !.result = res.value]
    /\ UNCHANGED <<env, listening, req, hpc, written, orch, cli, cliOrch>>

NextScopes == CallGetMissingScopes

SpecScopes == InitScopes /\ [][NextScopes]_vars

----------------------------------------------------------------------------
(* Properties *)

Has(tr, ev) == \E i \in 1..Len(tr) : tr[i] = ev
Before(tr, a, b) == \E i, j \in 1..Len(tr) : i < j /\ tr[i] = a /\ tr[j] = b

\* the request is a POST to /graphql
IsPostGraphql(q) ==
    q.method = "POST" /\ parseUrl(q.url).ok /\ parseUrl(q.url).value = PathGraphql

\* an optional string that is absent or all whitespace
Blank(o) == IsNone(o) \/ \A i \in 1..Len(o[1]) : o[1][i] \in WhiteSpace

\* the answer to the GraphQL POST has arrived
QuerySettled(o) == Has(o.trace, "query-returned") \/ Has(o.trace, "query-threw")

\* the answer was a success status with a JSON object as body
OkObject(reply) == reply.net /\ ResOk(reply) /\ reply.json = "object"

\* the scope check of request r came first and let the POST through
ScopeCheckFirst(o) ==
    Has(o.trace, "query-sent") =>
        /\ Before(o.trace, "scope-sent", "scope-returned")
        /\ Before(o.trace, "scope-returned", "query-sent")
        /\ ~Has(o.trace, "scope-threw")
        /\ OkObject(o.scopeReply)
        /\ o.missing = <<>>

\* the call ended in an error and sent no POST
FailedWithoutQuery(o) ==
    /\ o.pc = "done"
    /\ ~o.outcome.ok
    /\ ~Has(o.trace, "query-sent")
    /\ o.queryReply = NoReply

\* C1 as stated: in every run, several requests interleaved included, the
\* GraphQL POST of a request is sent only after that request's own scope call
\* returned with no scope missing; when the scope call fails or reports a
\* missing scope, no POST is sent for the request and the orchestration fails
\* with the error that lists the missing scopes.
C1_Original ==
    \A r \in Reqs :
        LET o == orch[r]
        IN  /\ ScopeCheckFirst(o)
            /\ (Has(o.trace, "scope-threw")
                \/ (Has(o.trace, "scope-returned") /\ Len(o.missing) > 0))
               => /\ FailedWithoutQuery(o)
                  /\ o.outcome.err.text = MissingScopesText

\* C1 amended: in every run, several requests interleaved included, the
\* GraphQL POST of a request is sent only after that request's own scope call
\* returned with no scope missing; when the scope call reports a missing
\* scope, no POST is sent and the orchestration fails with the error that
\* lists the missing scopes in the order of the required list; when the scope
\* call itself fails, no POST is sent and the orchestration fails with the
\* error of that call, which lists no scope.
C1_ScopeCheckGuardsQuery ==
    \A r \in Reqs :
        LET o == orch[r]
        IN  /\ ScopeCheckFirst(o)
            /\ (Has(o.trace, "scope-returned") /\ Len(o.missing) > 0)
               => /\ FailedWithoutQuery(o)
                  /\ o.outcome.err =
                         Err(MissingScopesText, <<join(o.missing, <<",", " ">>)>>)
                  /\ \A i \in 1..Len(o.missing) :
                         Has(o.required, o.missing[i])
            /\ Has(o.trace, "scope-threw")
               => /\ FailedWithoutQuery(o)
                  /\ (~o.scopeReply.net \/ ~ResOk(o.scopeReply))
                  /\ o.outcome.err.text # MissingScopesText
                  /\ o.missing = <<>>

\* two requests interleaved: the POST of request 1 is in flight, request 2
\* was stopped by a missing scope
C1_Witness ==
    /\ hpc[1] = "query"
    /\ Has(orch[1].trace, "query-sent")
    /\ hpc[2] = "done"
    /\ Len(orch[2].missing) > 0
    /\ written[2] # <<>>
    /\ written[2][1].status = 500

\* the granted set of the claim: the handles trimmed, the empty ones dropped
GrantedOf(handles) ==
    {trim(handles[i]) : i \in 1..Len(handles)} \ {<<>>}

\* C2: for a required list R and a granted list G answered with a success
\* status, getMissingScopes returns exactly the elements of R that are not in
\* G (trimmed, empties dropped), in the order of R, and the empty list when
\* every element of R is in G.
C2_MissingIsOrderedDifference ==
    probe.pc = "called" =>
        LET R == probe.required
            G == GrantedOf(probe.handles)
            Idx == {i \in 1..Len(R) : R[i] \notin G}
        IN  /\ Len(probe.result) = Cardinality(Idx)
            /\ \A i \in Idx :
                   probe.result[Cardinality({j \in Idx : j <= i})] = R[i]
            /\ (\A i \in 1..Len(R) : R[i] \in G) => probe.result = <<>>

\* a required scope granted only after trimming, and another one missing
C2_Witness ==
    /\ probe.pc = "called"
    /\ probe.required = <<ScopeA, ScopeB>>
    /\ probe.handles = <<<<" ", "a", " ">>, <<>>>>
    /\ probe.result = <<ScopeB>>

\* C3: a success status with a body whose errors array is non-empty makes
\* runShopifyQuery, and so validateAndQuery, fail with the serialized error
\* list; the data field is not returned, also when it is present.
C3_ErrorsAlwaysFail ==
    LET o == cliOrch
    IN  (/\ QuerySettled(o)
         /\ OkObject(o.queryReply)
         /\ o.queryReply.errors.t = "array"
         /\ Len(o.queryReply.errors.items) > 0)
        => /\ o.pc = "done"
           /\ ~o.outcome.ok
           /\ o.outcome.err =
                  Err("Shopify GraphQL errors: {0}",
                      <<Stringify(o.queryReply.errors)>>)
           /\ Has(o.trace, "query-threw")
           /\ cli.stdout = <<>>

\* errors and data in the same body
C3_Witness ==
    /\ QuerySettled(cliOrch)
    /\ cliOrch.queryReply = GraphqlReply(ShopData, OneError)
    /\ ~cliOrch.outcome.ok
    /\ cliOrch.outcome.err.args
           = << <<"[", "{", "\"", "m", "e", "s", "s", "a", "g", "e", "\"", ":",
                  "\"", "e", "1", "\"", "}", "]">> >>

\* the body of the request is not JSON, or has no query that is a non-empty
\* string
Malformed(body) ==
    \/ body.json = "invalid"
    \/ body.json \in {"null", "scalar"}
    \/ body.json = "object" /\ ~(body.query.t = "string" /\ Len(body.query.s) > 0)

\* C4 as stated: a POST /graphql whose body is not parsable JSON or has no
\* query that is a non-empty string is answered 400 with an {errors} body and
\* nothing is sent to the platform for it.  (Stated for the requests that
\* pass the API key check and whose body was read to its end.)
C4_MalformedIs400 ==
    \A r \in Reqs :
        (/\ hpc[r] = "done"
         /\ IsPostGraphql(req[r])
         /\ validateApiKey(API_KEY(env), req[r].authorization)
         /\ Malformed(req[r].body))
        => /\ Len(written[r]) = 1
           /\ written[r][1].status = 400
           /\ written[r][1].body.kind = "errors"
           /\ orch[r].trace = <<>>

\* a shared secret is configured
Configured == ~Blank(env["API_KEY"])

\* the Authorization header carries the configured secret
Carries(authorization) ==
    /\ IsSome(authorization)
    /\ \/ authorization[1] = trim(env["API_KEY"][1])
       \/ authorization[1] = Bearer \o trim(env["API_KEY"][1])

\* C5: with a shared secret configured, a POST /graphql without Authorization
\* header or with one that does not carry the secret is answered 401 and
\* nothing is sent to the platform for it; with no secret configured no
\* POST /graphql is answered 401.
C5_ApiKeyGate ==
    \A r \in Reqs :
        (hpc[r] # "new" /\ IsPostGraphql(req[r]))
        => /\ (Configured /\ ~Carries(req[r].authorization))
              => /\ hpc[r] = "done"
                 /\ Len(written[r]) = 1
                 /\ written[r][1].status = 401
                 /\ written[r][1].body.kind = "errors"
                 /\ orch[r].trace = <<>>
           /\ ~Configured
              => \A i \in 1..Len(written[r]) : written[r][i].status # 401

\* a wrong bearer token is turned away while a secret is configured
C5_Witness ==
    \E r \in Reqs :
        /\ Configured
        /\ IsPostGraphql(req[r])
        /\ req[r].authorization = Some(Bearer \o OtherSecret)
        /\ Len(written[r]) = 1
        /\ written[r][1].status = 401

\* C6 as stated: every request the adapter receives gets exactly one response
\* written, on every way the handler ends, never none and never two.
C6_ExactlyOneResponse ==
    \A r \in Reqs :
        /\ Len(written[r]) <= 1
        /\ hpc[r] \in {"done", "rejected"} => Len(written[r]) = 1

RoutedPaths == {PathRoot, PathHealth, PathGraphql}

\* the routing table of the claim
AllowedMethods(path) ==
    IF path = PathGraphql THEN {"GET", "POST"} ELSE {"GET"}

\* C7 as stated: a request that is not OPTIONS is answered 404 when its path
\* is none of /, /health, /graphql, and 405 when the path is routed and the
\* method is not one the routing table lists for it.
C7_NotFoundOrNotAllowed ==
    \A r \in Reqs :
        (hpc[r] = "done" /\ req[r].method # "OPTIONS")
        => LET path == parseUrl(req[r].url).value
           IN  /\ path \notin RoutedPaths
                  => Len(written[r]) = 1 /\ written[r][1].status = 404
               /\ (path \in RoutedPaths
                   /\ req[r].method \notin AllowedMethods(path))
                  => Len(written[r]) = 1 /\ written[r][1].status = 405

\* C8 as stated: an OPTIONS request to any path is answered 204 with the CORS
\* headers and an empty body, whatever the path, the configuration and the
\* Authorization header, and nothing is sent to the platform for it.
C8_PreflightAlways204 ==
    \A r \in Reqs :
        (hpc[r] # "new" /\ req[r].method = "OPTIONS")
        => /\ Len(written[r]) = 1
           /\ written[r][1].status = 204
           /\ CorsHeaders \subseteq written[r][1].headers
           /\ written[r][1].body = EmptyBody
           /\ orch[r].trace = <<>>

\* C9: the CLI ends with status 0 and the result on stdout exactly when the
\* orchestration succeeded; on every failure it writes nothing to stdout and
\* ends with a non-zero status; a missing query or mandatory configuration
\* value fails before any call to the platform.
C9_ExitStatus ==
    /\ cli.pc # "exited" => cli.stdout = <<>> /\ cli.exitCode = -1
    /\ cli.pc = "exited"
       => /\ cli.exitCode = 0 <=> (cliOrch.pc = "done" /\ cliOrch.outcome.ok)
          /\ cli.exitCode = 0 => cli.stdout = <<cliOrch.outcome.value>>
          /\ cli.exitCode # 0 => cli.exitCode > 0 /\ cli.stdout = <<>>
          /\ cli.exitCode = 0
             => /\ Has(cliOrch.trace, "query-returned")
                /\ cliOrch.missing = <<>>
                /\ OkObject(cliOrch.queryReply)
                /\ ~(cliOrch.queryReply.errors.t = "array"
                     /\ Len(cliOrch.queryReply.errors.items) > 0)
    /\ (cli.pc # "start"
        /\ \/ Blank(env["SHOP_DOMAIN"])
           \/ Blank(env["SHOP_ACCESS_TOKEN"])
           \/ Blank(cli.argv) /\ Blank(env["SHOPIFY_GRAPHQL"]))
       => /\ cli.pc = "exited"
          /\ cli.exitCode > 0
          /\ cliOrch.trace = <<>>

\* a successful run whose query came from SHOPIFY_GRAPHQL
C9_Witness ==
    /\ cli.pc = "exited"
    /\ cli.exitCode = 0
    /\ cli.argv = Some(<<" ">>)
    /\ cliOrch.query = QueryText
    /\ cli.stdout = <<DataResult(ShopData)>>

\* C10 as stated: a success status without a non-empty errors list (errors
\* absent, or an empty list) never makes runShopifyQuery fail: it returns the
\* data field when present and the whole parsed response when data is absent.
C10_NoErrorsNeverFails ==
    LET o == cliOrch
    IN  (/\ QuerySettled(o)
         /\ OkObject(o.queryReply)
         /\ \/ o.queryReply.errors = Undefined
            \/ o.queryReply.errors = JList(<<>>))
        => /\ o.outcome.ok
           /\ o.outcome.value =
                  IF o.queryReply.data = Undefined
                  THEN WholeResult(o.queryReply)
                  ELSE DataResult(o.queryReply.data)

\* C11 as stated: the CLI writes the line that says authorization passed and
\* the platform is being called only after the scope call of that run has
\* returned with no scope missing; in a run whose scope call fails or reports
\* a missing scope the line is never written.
C11_CallingLineAfterScopeCheck ==
    Has(cli.stderr, InfoCalling)
    => /\ Has(cliOrch.trace, "scope-returned")
       /\ ~Has(cliOrch.trace, "scope-threw")
       /\ cliOrch.missing = <<>>

====
